---- MODULE Spec2Model ----
(***************************************************************************)
(* A model of assimp_import-rs, the borrowed read-only view layer over a   *)
(* scene graph owned by the foreign import engine.                         *)
(*                                                                         *)
(* These specifications share the module's variables:                      *)
(*   SpecMeta      the tagged-value metadata iterator (metadata.rs)        *)
(*   SpecMaterial  the aggregate material property query (material.rs)     *)
(*   SpecTexture   the per-slot texture queries (material.rs)              *)
(*   SpecScene     the ownership root and its borrowed views (scene.rs)    *)
(*   SpecImport    the import calls and the strings they pass (scene.rs)   *)
(*   SpecPrim      the sequence bridge and the enum translators            *)
(*                 (prim.rs, macros.rs)                                    *)
(*   SpecEmbedded  the embedded texture (texture.rs)                       *)
(*   SpecTree      navigation of the node tree (scene.rs)                  *)
(*   SpecMesh      the vertex attributes of a mesh (mesh.rs)               *)
(* Each one leaves the variables of the other sections unchanged.          *)
(***************************************************************************)
EXTENDS Integers, Sequences, FiniteSets, TLC

VARIABLES
    \* ---- metadata.rs
    metaData,     \* the foreign aiMetadata block the MetaData view points at
    itState,      \* "none" | "live" | "panicked" | "crashed": the caller's Iter
    itIdx,        \* Iter.idx
    itOut,        \* what the last Iter::next returned
    yielded,      \* the pairs the current Iter has yielded, in order
    readLog,      \* array positions Iter::next has read since Iter::new
    getArg,       \* the key of the last MetaData::get
    getOut,       \* what the last MetaData::get returned
    \* ---- material.rs
    matStore,     \* the foreign aiMaterial's well-known properties
    texStore,     \* the foreign aiMaterial's texture slots, per semantic
    matOut,       \* what the last Material::material_properties returned
    texArg,       \* the last texture query: operation, semantic, index
    texOut,       \* what the last texture query returned
    ffiCalls,     \* the foreign calls the last material operation made, in order
    \* ---- scene.rs
    strArg,       \* the &str the caller passes: the path of from_file, the hint of from_bytes
    call,         \* per thread: its current or last import call: number, C string handed over
    pc,           \* per thread: "idle", "returned" inside from_file / from_bytes, "crashed"
    ret,          \* per thread: the pointer the import call returned
    callLog,      \* per thread: the foreign calls of its current or last import
    result,       \* per thread: what its last from_file / from_bytes returned
    lastError,    \* the engine's process-wide last-error text
    nImports,     \* import calls made so far (the engine numbers its handles)
    released,     \* per handle the engine gave out: calls of aiReleaseImport on it
    scenes,       \* the live Scene values, by handle
    dropped,      \* the handles of the Scene values dropped so far
    views,        \* the live views
    viewsRead,    \* the handles a view of which has been read
    staleReads,   \* reads of a view made after its scene was released
    \* ---- prim.rs / macros.rs
    sliceArg,     \* the last sequence bridge: element sizes, pointer, count
    sliceOut,     \* the slice the last sequence bridge returned
    enumArg,      \* the last from_ffi: the enumeration and the foreign code
    enumOut,      \* what the last from_ffi returned
    \* ---- texture.rs
    texture,      \* the foreign aiTexture a Texture view points at
    hintOut,      \* what the last Texture::format_hint returned
    texelsOut,    \* what the last Texture::as_texels returned
    bytesOut,     \* what the last Texture::as_bytes returned
    \* ---- mesh.rs
    mesh,         \* the foreign aiMesh a Mesh view points at
    meshOut,      \* the last Mesh accessor call and what it returned
    \* ---- scene.rs: the node tree
    graph,        \* the foreign aiScene: its root pointer and its aiNode records
    node,         \* the Node view the caller holds
    navOut        \* the last navigation call and what it returned

metaVars == <<metaData, itState, itIdx, itOut, yielded, readLog, getArg, getOut>>
matVars == <<matStore, texStore, matOut, texArg, texOut, ffiCalls>>

sceneVars == <<strArg, call, pc, ret, callLog, result, lastError, nImports, released, scenes,
               dropped, views, viewsRead, staleReads>>

primVars == <<sliceArg, sliceOut, enumArg, enumOut>>
embeddedVars == <<texture, hintOut, texelsOut, bytesOut>>
meshVars == <<mesh, meshOut>>
treeVars == <<graph, node, navOut>>

vars == <<metaData, itState, itIdx, itOut, yielded, readLog, getArg, getOut,
          matStore, texStore, matOut, texArg, texOut, ffiCalls,
          strArg, call, pc, ret, callLog, result, lastError, nImports, released,
          scenes, dropped, views, viewsRead, staleReads,
          sliceArg, sliceOut, enumArg, enumOut,
          texture, hintOut, texelsOut, bytesOut,
          mesh, meshOut,
          graph, node, navOut>>

(***************************************************************************)
(* Bounds of the model.                                                    *)
(***************************************************************************)
MaxEntries == 2
MaxSlots == 2
MaxImports == 2
MaxViews == 2

(***************************************************************************)
(* prim.rs: strings.  An aiString is its byte sequence (length = Len).     *)
(***************************************************************************)
StrA == <<97>>
StrB == <<98>>
StrEmpty == <<>>
StrBad == <<255>>

NoStr == <<0>>

\* str::from_utf8 on the model's byte strings: a byte above 127 alone is invalid.
Utf8Valid(s) == \A i \in 1..Len(s) : s[i] < 128

\* prim::str: None for length 0, unwrap of from_utf8 otherwise.
\* kind "None" | "Some" | "Panic" (the inner from_utf8(..).unwrap()).
PrimStr(s) ==
    IF Len(s) = 0 THEN [kind |-> "None", str |-> NoStr]
    ELSE IF Utf8Valid(s) THEN [kind |-> "Some", str |-> s]
    ELSE [kind |-> "Panic", str |-> NoStr]

(***************************************************************************)
(* metadata.rs                                                             *)
(***************************************************************************)
\* ffi::aiMetadataType, as matched by Iter::next.
AI_BOOL == 0
AI_INT == 1
AI_UINT64 == 2
AI_FLOAT == 3
AI_AISTRING == 4
AI_AIVECTOR3D == 5
AI_META_OTHER == 6

MetaTags == {AI_BOOL, AI_INT, AI_UINT64, AI_FLOAT, AI_AISTRING, AI_AIVECTOR3D, AI_META_OTHER}

\* Addresses.  0 is the null pointer.
NullPtr == 0
KeysBase == 4096 + NullPtr
ValuesBase == 8192 + NullPtr
EntrySize == 16 + NullPtr
PayloadAddr == 64 + NullPtr

\* The payload found at an address: the engine's payload at PayloadAddr, and
\* whatever bytes lie elsewhere (read only through undefined behaviour).
Heap(addr) == IF addr = PayloadAddr THEN 1 ELSE 0

\* The same payload read as an aiString (AI_AISTRING).
HeapStr(addr) == IF addr = PayloadAddr THEN StrA ELSE StrEmpty

MetaKeys == {StrA, StrB}

\* An entry of the value array with its key.  Every tag occurs with a
\* payload; an entry without payload (null mData) carries the tag AI_INT.
MetaEntry ==
    [key : MetaKeys, mType : MetaTags, mData : {PayloadAddr}]
    \cup [key : MetaKeys, mType : {AI_INT}, mData : {NullPtr}]

\* The blocks the engine hands out: N entries, equal-length key and value
\* arrays; an empty block may carry null arrays.
MetaBlocks ==
    { [mNumProperties |-> 0, mKeys |-> p, mValues |-> q, entries |-> <<>>] :
        p \in {NullPtr, KeysBase}, q \in {NullPtr, ValuesBase} }
    \cup
    UNION { { [mNumProperties |-> n, mKeys |-> KeysBase, mValues |-> ValuesBase,
               entries |-> e] : e \in [1..n -> MetaEntry] } : n \in 1..MaxEntries }

\* MetadataValue: the variant and the payload it carries.
NoVal == <<"None", 0>>
NoPair == [key |-> NoStr, val |-> NoVal]

\* What a read of memory the block does not own (position >= N) or through a
\* null mData can produce: the process dies, or the bytes found there are used.
OobOutcomes ==
    { [kind |-> "crash", key |-> StrEmpty, mType |-> AI_INT, mData |-> NullPtr] }
    \cup { [kind |-> "entry", key |-> k, mType |-> AI_INT, mData |-> PayloadAddr] :
             k \in {StrEmpty, StrB, StrBad} }
UbChoices == [oob : OobOutcomes, null : {"crash", "value"}]

\* mValues.offset(i): the address of entry i.
ValPtr(md, i) == md.mValues + i * EntrySize

\* The tags the match on mType names; its arm for one of them reads the
\* payload, the arm for any other tag is unreachable!().
TagMatched(tag) == tag \in MetaTags \ {AI_META_OTHER}

\* The match on mType (metadata.rs:61-69) with the payload read through p.
DecodeValueLax(tag, p) ==
    IF tag = AI_AISTRING /\ PrimStr(HeapStr(p)).kind # "Some"
    THEN [kind |-> "Panic", val |-> NoVal]
    ELSE [kind |-> "Some",
          val |-> <<IF tag = AI_BOOL THEN "Bool" ELSE IF tag = AI_UINT64 THEN "U64"
                    ELSE IF tag = AI_FLOAT THEN "F32"
                    ELSE IF tag = AI_AIVECTOR3D THEN "Vector3"
                    ELSE IF tag = AI_AISTRING THEN "String" ELSE "I32",
                    IF tag = AI_BOOL THEN Heap(p) % 2 ELSE Heap(p)>>]
DecodeValue(tag, p) ==
    CASE tag = AI_BOOL -> [kind |-> "Some", val |-> <<"Bool", Heap(p) % 2>>]
      [] tag = AI_INT -> [kind |-> "Some", val |-> <<"I32", Heap(p)>>]
      [] tag = AI_UINT64 -> [kind |-> "Some", val |-> <<"U64", Heap(p)>>]
      [] tag = AI_FLOAT -> [kind |-> "Some", val |-> <<"F32", Heap(p)>>]
      [] tag = AI_AIVECTOR3D -> [kind |-> "Some", val |-> <<"Vector3", Heap(p)>>]
      [] tag = AI_AISTRING ->
           IF PrimStr(HeapStr(p)).kind = "Some"
           THEN [kind |-> "Some", val |-> <<"String", Heap(p)>>]
           ELSE [kind |-> "Panic", val |-> NoVal]
      [] OTHER -> [kind |-> "Panic", val |-> NoVal]

\* Iter::next from index idx.  Result: the new idx, the positions read, and
\* out = [kind: "None" | "Some" | "Panic" | "Crash", pair].
RECURSIVE IterNext(_, _, _)
IterNext(md, idx, ub) ==
    IF idx >= md.mNumProperties
    THEN [idx |-> idx, reads |-> {}, kind |-> "None", pair |-> NoPair]
    ELSE
      LET i == idx + 1
          inb == i < md.mNumProperties
          slot == IF inb THEN md.entries[i + 1] ELSE ub.oob
          key == PrimStr(slot.key)
          dead == [idx |-> i, reads |-> {i}, kind |-> "Crash", pair |-> NoPair]
          boom == [idx |-> i, reads |-> {i}, kind |-> "Panic", pair |-> NoPair]
      IN  IF ~inb /\ ub.oob.kind = "crash" THEN dead
          ELSE IF key.kind # "Some" THEN boom
          ELSE IF ValPtr(md, i) = NullPtr
          THEN LET r == IterNext(md, i, ub)
               IN  [r EXCEPT !.reads = r.reads \cup {i}]
          ELSE IF slot.mData = NullPtr /\ TagMatched(slot.mType) /\ ub.null = "crash"
          THEN dead
          ELSE LET v == DecodeValue(slot.mType, slot.mData)
               IN  [idx |-> i, reads |-> {i}, kind |-> v.kind,
                    pair |-> [key |-> key.str, val |-> v.val]]

\* The variant a tag decodes to, for the tags the match names.
VariantOf(tag) ==
    CASE tag = AI_BOOL -> "Bool"
      [] tag = AI_INT -> "I32"
      [] tag = AI_UINT64 -> "U64"
      [] tag = AI_FLOAT -> "F32"
      [] tag = AI_AIVECTOR3D -> "Vector3"
      [] tag = AI_AISTRING -> "String"
      [] OTHER -> "None"

\* Iterator::find over a fresh Iter, as MetaData::get runs it.
RECURSIVE IterFind(_, _, _, _)
IterFind(md, idx, key, ub) ==
    LET r == IterNext(md, idx, ub)
    IN  IF r.kind = "Some" /\ r.pair.key # key
        THEN LET f == IterFind(md, r.idx, key, ub)
             IN  [f EXCEPT !.reads = f.reads \cup r.reads]
        ELSE [kind |-> r.kind, val |-> r.pair.val, reads |-> r.reads]

\* Iter::new: the assertion on the two array pointers.
IterNewOk(md) == md.mKeys # NullPtr /\ md.mValues # NullPtr

AfterKind(kind) ==
    CASE kind = "Panic" -> "panicked"
      [] kind = "Crash" -> "crashed"
      [] OTHER -> "live"

Running == itState \in {"none", "live"}

\* MetaData::iter
MetaIter ==
    /\ Running
    /\ IF IterNewOk(metaData)
       THEN /\ itState' = "live"
            /\ itIdx' = 0
            /\ yielded' = <<>>
            /\ itOut' = [kind |-> "New", pair |-> NoPair]
       ELSE /\ itState' = "panicked"
            /\ UNCHANGED <<itIdx, yielded, itOut>>
    /\ UNCHANGED <<metaData, readLog, getArg, getOut>>
    /\ UNCHANGED <<matVars, sceneVars, primVars, embeddedVars, treeVars, meshVars>>

\* Iter::next on the caller's iterator
MetaNext ==
    /\ itState = "live"
    /\ \E ub \in UbChoices :
         LET r == IterNext(metaData, itIdx, ub)
         IN  /\ itIdx' = r.idx
             /\ itOut' = [kind |-> r.kind, pair |-> r.pair]
             /\ yielded' = IF r.kind = "Some" THEN Append(yielded, r.pair) ELSE yielded
             /\ readLog' = readLog \cup r.reads
             /\ itState' = AfterKind(r.kind)
    /\ UNCHANGED <<metaData, getArg, getOut>>
    /\ UNCHANGED <<matVars, sceneVars, primVars, embeddedVars, treeVars, meshVars>>

\* MetaData::get(key)
MetaGet ==
    /\ Running
    /\ \E key \in MetaKeys, ub \in UbChoices :
         /\ getArg' = key
         /\ IF IterNewOk(metaData)
            THEN LET f == IterFind(metaData, 0, key, ub)
                 IN  /\ getOut' = [kind |-> f.kind, val |-> f.val]
                     /\ readLog' = readLog \cup f.reads
                     /\ itState' = IF f.kind \in {"Panic", "Crash"}
                                   THEN AfterKind(f.kind) ELSE itState
            ELSE /\ getOut' = [kind |-> "Panic", val |-> NoVal]
                 /\ itState' = "panicked"
                 /\ UNCHANGED readLog
    /\ UNCHANGED <<metaData, itIdx, itOut, yielded>>
    /\ UNCHANGED <<matVars, sceneVars, primVars, embeddedVars, treeVars, meshVars>>


(***************************************************************************)
(* material.rs: the aggregate query.  A property of the foreign store is   *)
(* [has, v]; floats are counted in hundredths (100 is 1.0).                *)
(***************************************************************************)
\* The enum domains (the discriminants the #[repr(u32)] enums declare).
ShadingGouraud == 2
ShadingModes == 1..10
BlendModes == 0..1
TextureMappings == 0..5
TextureOps == 0..5
TextureMapModes == 0..3
TextureFlagBits == 7

\* ai_impl_enum!: from_ffi is a transmute.  A code of the domain is that
\* variant; any other code is an invalid enum value (no check, no panic).
FromFfiPositional(domain, x) ==
    IF x + 1 \in domain THEN [kind |-> "Variant", code |-> x + 1]
    ELSE [kind |-> "Invalid", code |-> x]
FromFfiChecked(domain, x) ==
    IF x \in domain THEN [kind |-> "Variant", code |-> x]
    ELSE [kind |-> "Panic", code |-> x]
FromFfi(domain, x) ==
    IF x \in domain THEN [kind |-> "Variant", code |-> x]
    ELSE [kind |-> "Invalid", code |-> x]

\* The keys material_properties reads, in call order.
MatIntKeys == <<"twosided", "shadingm", "wireframe", "blend">>
MatFloatKeys == <<"opacity", "bumpscaling", "shininess", "shinpercent",
                  "reflectivity", "refracti">>
MatColorKeys == <<"diffuse", "ambient", "specular", "emissive", "transparent",
                  "reflective">>

\* ffi::aiColor4D and its Default.
Color0 == [r |-> 0, g |-> 0, b |-> 0, a |-> 0]
ColorX == [r |-> 10, g |-> 20, b |-> 30, a |-> 100]

\* prim::col4
Col4(v) == <<v.r, v.g, v.b, v.a>>

Absent(v) == [has |-> FALSE, v |-> v]
Present(v) == [has |-> TRUE, v |-> v]

\* aiGetMaterialString / IntegerArray / FloatArray / Color with the output
\* preloaded with init: written on success, left alone on failure.
FfiGet(store, key, init) == IF store[key].has THEN store[key].v ELSE init

\* The locals of material_properties before the foreign calls (lines 472-488).
MatLocals ==
    [name |-> StrEmpty, twosided |-> 0, shadingm |-> ShadingGouraud, wireframe |-> 0,
     blend |-> 0, opacity |-> 100, bumpscaling |-> 0, shininess |-> 0,
     shinpercent |-> 100, reflectivity |-> 0, refracti |-> 100,
     diffuse |-> Color0, ambient |-> Color0, specular |-> Color0,
     emissive |-> Color0, transparent |-> Color0, reflective |-> Color0]

\* The foreign calls of material_properties, in order (lines 491-541).
MatCalls ==
    <<"aiGetMaterialString">>
    \o [i \in 1..Len(MatIntKeys) |-> "aiGetMaterialIntegerArray"]
    \o [i \in 1..Len(MatFloatKeys) |-> "aiGetMaterialFloatArray"]
    \o [i \in 1..Len(MatColorKeys) |-> "aiGetMaterialColor"]

NoProps == [name |-> NoStr]

\* Material::material_properties on a store: [kind: "Some" | "Panic", rec].
MaterialProperties(store) ==
    LET got == [k \in DOMAIN MatLocals |-> FfiGet(store, k, MatLocals[k])]
        name == PrimStr(got.name)
    IN  IF name.kind # "Some"
        THEN [kind |-> "Panic", rec |-> NoProps]
        ELSE [kind |-> "Some",
              rec |-> [name |-> name.str,
                       twosided |-> got.twosided # 0,
                       shading_mode |-> FromFfi(ShadingModes, got.shadingm),
                       wireframe |-> got.wireframe # 0,
                       blend_mode |-> FromFfi(BlendModes, got.blend),
                       opacity |-> got.opacity,
                       bumpscaling |-> got.bumpscaling,
                       shininess |-> got.shininess,
                       shininess_strength |-> got.shinpercent,
                       reflectivity |-> got.reflectivity,
                       refracti |-> got.refracti,
                       color_diffuse |-> Col4(got.diffuse),
                       color_ambient |-> Col4(got.ambient),
                       color_specular |-> Col4(got.specular),
                       color_emissive |-> Col4(got.emissive),
                       color_transparent |-> Col4(got.transparent),
                       color_reflective |-> Col4(got.reflective)]]

\* The stores the engine hands out: each of the keys varied here is absent or
\* set; the remaining keys are absent together or set together.
MatStores ==
    { [name |-> n, twosided |-> two, shadingm |-> sh, blend |-> bl,
       opacity |-> op, refracti |-> ri, shinpercent |-> sp, diffuse |-> df,
       wireframe |-> IF rest THEN Present(1) ELSE Absent(0),
       bumpscaling |-> IF rest THEN Present(25) ELSE Absent(0),
       shininess |-> IF rest THEN Present(40) ELSE Absent(0),
       reflectivity |-> IF rest THEN Present(30) ELSE Absent(0),
       ambient |-> IF rest THEN Present(ColorX) ELSE Absent(Color0),
       specular |-> IF rest THEN Present(ColorX) ELSE Absent(Color0),
       emissive |-> IF rest THEN Present(ColorX) ELSE Absent(Color0),
       transparent |-> IF rest THEN Present(ColorX) ELSE Absent(Color0),
       reflective |-> IF rest THEN Present(ColorX) ELSE Absent(Color0)] :
        n \in {Absent(StrEmpty), Present(StrEmpty), Present(StrA)},
        two \in {Absent(0), Present(1)},
        sh \in {Absent(0), Present(3)},
        bl \in {Absent(0), Present(1)},
        op \in {Absent(0), Present(50)},
        ri \in {Absent(0), Present(150)},
        sp \in {Absent(0), Present(50)},
        df \in {Absent(Color0), Present(ColorX)},
        rest \in BOOLEAN }

MatRunning == matOut.kind # "Panic" /\ texOut.kind # "Panic"

\* a call of Material::material_properties
MatProps ==
    /\ MatRunning
    /\ matOut' = MaterialProperties(matStore)
    /\ ffiCalls' = MatCalls
    /\ UNCHANGED <<matStore, texStore, texArg, texOut>>
    /\ UNCHANGED <<metaVars, sceneVars, primVars, embeddedVars, treeVars, meshVars>>

(***************************************************************************)
(* material.rs: the texture-slot queries.                                  *)
(***************************************************************************)
\* TextureType::Diffuse and ::Specular, the semantics the model queries.
TexDiffuse == 1
TexSpecular == 2
Semantics == {TexDiffuse, TexSpecular}

\* !0 as c_uint, preloaded into uv_index: the all-ones word 0xFFFFFFFF, held
\* here by its two's-complement reading (TLC's integers are 32-bit signed).
UvSentinel == -1

\* What the engine does on aiGetMaterialTexture for one slot: its return code,
\* the path it writes, and for each further output whether it writes it.
SlotFull ==
    [ret |-> "SUCCESS", path |-> StrA, mapping |-> Present(0), uvindex |-> Present(0),
     blend |-> Present(50), op |-> Present(1), mapmode |-> Present(<<1, 2>>),
     flags |-> Present(1)]
SlotBare ==
    [ret |-> "SUCCESS", path |-> StrB, mapping |-> Absent(0), uvindex |-> Absent(0),
     blend |-> Absent(0), op |-> Absent(0), mapmode |-> Absent(<<0, 0>>),
     flags |-> Absent(0)]
SlotNoPath == [SlotFull EXCEPT !.path = StrEmpty]
SlotOddFlags == [SlotBare EXCEPT !.flags = Present(8)]
SlotMissing == [SlotBare EXCEPT !.ret = "FAILURE", !.path = StrEmpty]

\* (the last one: the engine itself writes the all-ones word as the UV index)
SlotAnswers ==
    {SlotFull, SlotBare, SlotNoPath, SlotOddFlags, SlotMissing,
     [SlotFull EXCEPT !.path = StrB, !.uvindex = Present(UvSentinel)]}

\* The slots of one semantic: the count is the highest set index plus one, so
\* the last slot is never a missing one.
SlotSeqs ==
    UNION { { q \in [1..n -> SlotAnswers] : n > 0 => q[n].ret = "SUCCESS" } :
            n \in 0..MaxSlots }

TexStores == [Semantics -> SlotSeqs]

\* ffi::aiGetMaterialTextureCount
FfiTextureCount(store, sem) == Len(store[sem])

\* ffi::aiGetMaterialTexture: the slot's answer, a failure past the last slot.
FfiTexture(store, sem, idx) ==
    IF idx < Len(store[sem]) THEN store[sem][idx + 1] ELSE SlotMissing

\* An output preloaded with init and written by the engine or not.
Written(prop, init) == IF prop.has THEN prop.v ELSE init

\* bitflags from_bits: None when a bit outside the declared flags is set.
FromBits(f) ==
    IF f \div (TextureFlagBits + 1) = 0 THEN [some |-> TRUE, v |-> f]
    ELSE [some |-> FALSE, v |-> 0]

\* uv_index: if uv_index != !0 { Some(uv_index) } else { None }
UvIndexZeroAbsent(uv) ==
    IF uv # 0 THEN [some |-> TRUE, v |-> uv] ELSE [some |-> FALSE, v |-> 0]
UvIndex(uv) ==
    IF uv # UvSentinel THEN [some |-> TRUE, v |-> uv] ELSE [some |-> FALSE, v |-> 0]

\* Material::count_texture_properties
CountTextureProperties(store, sem) == FfiTextureCount(store, sem)

\* Material::texture_properties: out is [kind: "None" | "Some" | "Panic"],
\* calls the foreign calls made, in order.
TexturePropertiesUnchecked(store, sem, idx) ==
    LET a == FfiTexture(store, sem, idx)
    IN  [out |-> [kind |-> IF a.ret = "SUCCESS" THEN "Some" ELSE "None"],
         calls |-> <<"aiGetMaterialTextureCount", "aiGetMaterialTexture">>]
TextureProperties(store, sem, idx) ==
    IF idx >= CountTextureProperties(store, sem)
    THEN [out |-> [kind |-> "None"], calls |-> <<"aiGetMaterialTextureCount">>]
    ELSE
      LET a == FfiTexture(store, sem, idx)
          calls == <<"aiGetMaterialTextureCount", "aiGetMaterialTexture">>
          path == PrimStr(a.path)
          uv == Written(a.uvindex, UvSentinel)
          mm == Written(a.mapmode, <<0, 0>>)
          flags == FromBits(Written(a.flags, 0))
      IN  IF a.ret # "SUCCESS" THEN [out |-> [kind |-> "None"], calls |-> calls]
          ELSE IF path.kind # "Some" \/ ~flags.some
          THEN [out |-> [kind |-> "Panic"], calls |-> calls]
          ELSE [out |-> [kind |-> "Some",
                         rec |-> [texture_ref |-> path.str,
                                  mapping |-> FromFfi(TextureMappings, Written(a.mapping, 5)),
                                  uv_index |-> UvIndex(uv),
                                  blend |-> Written(a.blend, 0),
                                  op |-> FromFfi(TextureOps, Written(a.op, 0)),
                                  map_mode |-> <<FromFfi(TextureMapModes, mm[1]),
                                                 FromFfi(TextureMapModes, mm[2])>>,
                                  flags |-> flags.v]],
                calls |-> calls]

\* a call of Material::count_texture_properties
TexCount ==
    /\ MatRunning
    /\ \E sem \in Semantics :
         /\ texArg' = [op |-> "count", sem |-> sem, idx |-> 0]
         /\ texOut' = [kind |-> "Count", n |-> CountTextureProperties(texStore, sem)]
         /\ ffiCalls' = <<"aiGetMaterialTextureCount">>
    /\ UNCHANGED <<matStore, texStore, matOut>>
    /\ UNCHANGED <<metaVars, sceneVars, primVars, embeddedVars, treeVars, meshVars>>

\* a call of Material::texture_properties
TexProps ==
    /\ MatRunning
    /\ \E sem \in Semantics, idx \in 0..(MaxSlots + 1) :
         LET r == TextureProperties(texStore, sem, idx)
         IN  /\ texArg' = [op |-> "props", sem |-> sem, idx |-> idx]
             /\ texOut' = r.out
             /\ ffiCalls' = r.calls
    /\ UNCHANGED <<matStore, texStore, matOut>>
    /\ UNCHANGED <<metaVars, sceneVars, primVars, embeddedVars, treeVars, meshVars>>

(***************************************************************************)
(* scene.rs: the ownership root, and the views borrowed from it.           *)
(***************************************************************************)
Threads == {"t1", "t2"}

\* The engine's error text: none yet, or the bytes it set for failed import
\* call n.
NoError == [call |-> 0, text |-> StrEmpty]
ErrorOf(n, bytes) == [call |-> n, text |-> bytes]
ErrorTexts == {StrA, StrBad}

\* CStr::to_string_lossy: a byte that is not UTF-8 becomes U+FFFD.
ToStringLossy(s) == [i \in 1..Len(s) |-> IF s[i] < 128 THEN s[i] ELSE 65533]

\* The foreign graph behind every handle: node 1 is the root, nodes 2 and 3
\* its children with one mesh each; node 2 carries a metadata block.
NodeParent(n) == IF n = 1 THEN NullPtr ELSE 1
NodeChildren(n) == IF n = 1 THEN <<2, 3>> ELSE <<>>
NodeMeshes(n) == IF n = 1 THEN <<>> ELSE <<n - 2>>
NodeHasMeta(n) == n = 2
SceneMeshes == <<0, 1>>
RootNodePtr == 1 + NullPtr

\* The accessors that hand out a view, and whether the lifetime of the view
\* they return is tied to the borrow it was obtained through (elided
\* lifetimes of &self -> Node / &[Mesh] / Iter, and Self = Node<'a>,
\* MetaData<'a>).  No accessor returns a view with a free or 'static lifetime.
Accessors == {"root_node", "meshes", "materials", "children", "parent",
              "meta_data", "iter"}
ViewUnscoped(acc) == acc # "root_node"
ViewScoped(acc) == acc \in Accessors

\* Drop for Scene: one aiReleaseImport on the handle.
SceneDropLeak(rel, h) == rel
SceneDrop(rel, h) == IF h \in DOMAIN rel THEN [rel EXCEPT ![h] = @ + 1] ELSE rel

\* Scene::get_error_string: the engine's last-error text as it is now.
GetErrorStringUnread(err) == NoError
GetErrorString(err) == [call |-> err.call, text |-> ToStringLossy(err.text)]

\* The tail of from_file / from_bytes after the import call returned ptr:
\* Err(last error) for null, Ok(Scene::from_ptr(ptr)) otherwise.
FromImport(ptr, err) ==
    IF ptr = NullPtr
    THEN [kind |-> "Err", h |-> NullPtr, msg |-> GetErrorString(err)]
    ELSE [kind |-> "Ok", h |-> ptr, msg |-> NoError]

\* The process runs until a thread faults.
Alive == \A t \in Threads : pc[t] # "crashed"

\* from_file / from_bytes, first half: the import call.  from_file hands the
\* engine path.as_ptr(), the bytes of the &str as they are; from_bytes hands
\* it the bytes of format!("{}\0", hint).  The engine reads the C string up
\* to the first NUL; past: the buffer holds none, so the read runs past its
\* end (undefined behaviour: the process faults, or the import goes on with
\* whatever bytes were found).  The engine returns a new scene, or null
\* after setting its last-error text.
ImportCall(t) ==
    /\ Alive
    /\ pc[t] = "idle"
    /\ nImports < MaxImports
    /\ nImports' = nImports + 1
    /\ \E fn \in {"aiImportFile", "aiImportFileFromMemory"}, ok \in BOOLEAN,
          fault \in BOOLEAN :
         LET buf == IF fn = "aiImportFile" THEN strArg ELSE strArg \o <<0>>
             past == \A i \in 1..Len(buf) : buf[i] # 0
         IN  /\ fault => past /\ ok
             /\ call' = [call EXCEPT ![t] = [no |-> nImports', buf |-> buf, past |-> past]]
             /\ callLog' = [callLog EXCEPT ![t] = <<fn>>]
             /\ pc' = [pc EXCEPT ![t] = IF fault THEN "crashed" ELSE "returned"]
             /\ IF fault
                THEN UNCHANGED <<ret, released, lastError>>
                ELSE IF ok
                THEN /\ ret' = [ret EXCEPT ![t] = nImports']
                     /\ released' = released @@ (nImports' :> 0)
                     /\ UNCHANGED lastError
                ELSE /\ ret' = [ret EXCEPT ![t] = NullPtr]
                     /\ \E bytes \in ErrorTexts : lastError' = ErrorOf(nImports', bytes)
                     /\ UNCHANGED released
    /\ UNCHANGED <<strArg, result, scenes, dropped, views, viewsRead, staleReads>>
    /\ UNCHANGED <<metaVars, matVars, primVars, embeddedVars, treeVars, meshVars>>

\* from_file / from_bytes, second half: the null test and the result.
ImportReturn(t) ==
    /\ Alive
    /\ pc[t] = "returned"
    /\ LET r == FromImport(ret[t], lastError)
       IN  /\ result' = [result EXCEPT ![t] = r]
           /\ scenes' = IF r.kind = "Ok" THEN scenes \cup {r.h} ELSE scenes
           /\ callLog' = IF r.kind = "Err"
                         THEN [callLog EXCEPT ![t] = Append(@, "aiGetErrorString")]
                         ELSE callLog
    /\ pc' = [pc EXCEPT ![t] = "idle"]
    /\ UNCHANGED <<strArg, call, ret, lastError, nImports, released, dropped, views,
                   viewsRead, staleReads>>
    /\ UNCHANGED <<metaVars, matVars, primVars, embeddedVars, treeVars, meshVars>>

View(h, kind, ptr, scoped) == [scene |-> h, kind |-> kind, ptr |-> ptr, scoped |-> scoped]

Obtain(v) ==
    /\ Alive
    /\ Cardinality(views) < MaxViews
    /\ v \notin views
    /\ views' = views \cup {v}
    /\ UNCHANGED <<strArg, call, pc, ret, callLog, result, lastError, nImports,
                   released, scenes, dropped, viewsRead, staleReads>>
    /\ UNCHANGED <<metaVars, matVars, primVars, embeddedVars, treeVars, meshVars>>

\* Scene::root_node
RootNode == \E h \in scenes : Obtain(View(h, "Node", RootNodePtr, ViewScoped("root_node")))

\* Scene::meshes, one element of the slice
Meshes ==
    \E h \in scenes, i \in 1..Len(SceneMeshes) :
        Obtain(View(h, "Mesh", SceneMeshes[i], ViewScoped("meshes")))

\* Node::children, one element of the slice
Children ==
    \E v \in views :
        /\ v.kind = "Node"
        /\ \E i \in 1..Len(NodeChildren(v.ptr)) :
             Obtain(View(v.scene, "Node", NodeChildren(v.ptr)[i],
                         v.scoped /\ ViewScoped("children")))

\* Node::parent
Parent ==
    \E v \in views :
        /\ v.kind = "Node"
        /\ NodeParent(v.ptr) # NullPtr
        /\ Obtain(View(v.scene, "Node", NodeParent(v.ptr), v.scoped /\ ViewScoped("parent")))

\* Node::meta_data
NodeMetaData ==
    \E v \in views :
        /\ v.kind = "Node"
        /\ NodeHasMeta(v.ptr)
        /\ Obtain(View(v.scene, "MetaData", v.ptr, v.scoped /\ ViewScoped("meta_data")))

\* MetaData::iter
ViewIter ==
    \E v \in views :
        /\ v.kind = "MetaData"
        /\ Obtain(View(v.scene, "Iter", v.ptr, v.scoped /\ ViewScoped("iter")))

\* Any read through a view (name, transform, vertices, next, ...): it reads
\* the foreign memory of the view's scene.
ReadView ==
    \E v \in views :
        /\ Alive
        /\ viewsRead' = viewsRead \cup {v.scene}
        /\ staleReads' = IF released[v.scene] > 0 THEN staleReads \cup {v} ELSE staleReads
        /\ UNCHANGED <<strArg, call, pc, ret, callLog, result, lastError, nImports,
                       released, scenes, dropped, views>>
        /\ UNCHANGED <<metaVars, matVars, primVars, embeddedVars, treeVars, meshVars>>

\* A view goes out of scope.
DropView ==
    \E v \in views :
        /\ Alive
        /\ views' = views \ {v}
        /\ UNCHANGED <<strArg, call, pc, ret, callLog, result, lastError, nImports,
                       released, scenes, dropped, viewsRead, staleReads>>
        /\ UNCHANGED <<metaVars, matVars, primVars, embeddedVars, treeVars, meshVars>>

\* The Scene goes out of scope.  The borrow checker accepts this only when no
\* view whose lifetime is tied to the Scene is still live.
DropScene ==
    \E h \in scenes :
        /\ Alive
        /\ \A v \in views : v.scene = h => ~v.scoped
        /\ scenes' = scenes \ {h}
        /\ dropped' = dropped \cup {h}
        /\ released' = SceneDrop(released, h)
        /\ UNCHANGED <<strArg, call, pc, ret, callLog, result, lastError, nImports,
                       views, viewsRead, staleReads>>
        /\ UNCHANGED <<metaVars, matVars, primVars, embeddedVars, treeVars, meshVars>>


(***************************************************************************)
(* prim.rs, macros.rs: the sequence bridge.  A slice is its data pointer   *)
(* and its length; element i of it is the foreign memory at ptr + i * size.*)
(***************************************************************************)
MaxLen == 3

\* mem::size_of of ffi::aiTexel (four bytes, as as_bytes counts them), of
\* prim::Texel = [f32; 4], and of a pointer (the field of an ai_ptr_type!).
AiTexelSize == 4
TexelSize == 16
PtrSize == 8
ElemSizes == {AiTexelSize, PtrSize, TexelSize}

\* A foreign array, and the address the empty slice &[] carries.
ArrayA == 256 + NullPtr
Dangling == NullPtr - 1

EmptySlice == [kind |-> "Ok", ptr |-> Dangling, len |-> 0]

\* prim::slice::<T, U>(ptr, len)
PrimSliceNoNullTest(sizeT, sizeU, ptr, len) ==
    IF sizeT # sizeU THEN [kind |-> "Panic", ptr |-> Dangling, len |-> 0]
    ELSE IF len = 0 THEN EmptySlice
    ELSE [kind |-> "Ok", ptr |-> ptr, len |-> len]
PrimSliceShort(sizeT, sizeU, ptr, len) ==
    IF sizeT # sizeU THEN [kind |-> "Panic", ptr |-> Dangling, len |-> 0]
    ELSE IF len = 0 \/ ptr = NullPtr THEN EmptySlice
    ELSE [kind |-> "Ok", ptr |-> ptr, len |-> len - 1]
PrimSlice(sizeT, sizeU, ptr, len) ==
    IF sizeT # sizeU THEN [kind |-> "Panic", ptr |-> Dangling, len |-> 0]
    ELSE IF len = 0 \/ ptr = NullPtr THEN EmptySlice
    ELSE [kind |-> "Ok", ptr |-> ptr, len |-> len]

\* ai_type!::slice and ai_ptr_type!::slice: the element is a #[repr(C)]
\* wrapper of the raw type (of a pointer to it), so the sizes agree.
AiTypeSlice(size, ptr, len) == PrimSlice(size, size, ptr, len)
AiPtrTypeSlice(ptr, len) == PrimSlice(PtrSize, PtrSize, ptr, len)

\* slice[i], for i < len: the foreign memory at the element's address.
SliceGet(sl, size, i) == <<"foreign", sl.ptr + i * size>>

\* The pointer the engine stored at an address of one of its pointer
\* arrays: the entries of the array at ArrayA point at records, the second
\* entry of the array at 2 * ArrayA is null.
PtrAt(addr) ==
    IF addr = 2 * ArrayA + PtrSize THEN NullPtr
    ELSE RootNodePtr + ((addr % ArrayA) \div PtrSize)

\* slice[i] of a slice of views, for i < len: the #[repr(C)] view that lies
\* over entry i of the pointer array; no from_ptr runs on it.
SliceView(sl, i) == [kind |-> "View", ptr |-> PtrAt(sl.ptr + i * PtrSize)]

\* a call of prim::slice, or of a generated slice constructor
Slice ==
    /\ sliceOut.kind # "Panic"
    /\ \E fn \in {"prim::slice", "ai_type!::slice", "ai_ptr_type!::slice"},
          sizeT \in ElemSizes, sizeU \in ElemSizes,
          ptr \in {NullPtr, ArrayA, 2 * ArrayA}, len \in 0..MaxLen :
         /\ fn = "ai_type!::slice" => sizeU = sizeT
         /\ fn = "ai_ptr_type!::slice" => sizeT = PtrSize /\ sizeU = PtrSize
         /\ sliceArg' = [fn |-> fn, sizeT |-> sizeT, sizeU |-> sizeU,
                         ptr |-> ptr, len |-> len]
         /\ sliceOut' = CASE fn = "prim::slice" -> PrimSlice(sizeT, sizeU, ptr, len)
                          [] fn = "ai_type!::slice" -> AiTypeSlice(sizeT, ptr, len)
                          [] OTHER -> AiPtrTypeSlice(ptr, len)
    /\ UNCHANGED <<enumArg, enumOut>>
    /\ UNCHANGED <<metaVars, matVars, sceneVars, embeddedVars, treeVars, meshVars>>

(***************************************************************************)
(* macros.rs: ai_impl_enum!, with the enumerations that use it.            *)
(***************************************************************************)
MaxCode == 13

\* The closed enumerations and the discriminant each variant declares.
EnumTable ==
    [TextureOp |-> [Multiply |-> 0, Add |-> 1, Subtract |-> 2, Divide |-> 3,
                    SmoothAdd |-> 4, SignedAdd |-> 5],
     TextureMapMode |-> [Wrap |-> 0, Clamp |-> 1, Decal |-> 3, Mirror |-> 2],
     TextureMapping |-> [Uv |-> 0, Sphere |-> 1, Cylinder |-> 2, Box |-> 3,
                         Plane |-> 4, Other |-> 5],
     TextureType |-> [None |-> 0, Diffuse |-> 1, Specular |-> 2, Ambient |-> 3,
                      Emissive |-> 4, Height |-> 5, Normals |-> 6, Shininess |-> 7,
                      Opacity |-> 8, Displacement |-> 9, Lightmap |-> 10,
                      Reflection |-> 11, Unknown |-> 12],
     ShadingMode |-> [Flat |-> 1, Gouraud |-> 2, Phong |-> 3, Blinn |-> 4, Toon |-> 5,
                      OrenNayar |-> 6, Minnaert |-> 7, CookTorrance |-> 8,
                      NoShading |-> 9, Fresnel |-> 10],
     BlendMode |-> [Default |-> 0, Additive |-> 1],
     AnimBehavior |-> [Default |-> 0, Constant |-> 1, Linear |-> 2, Repeat |-> 3],
     LightSourceType |-> [Undefined |-> 0, Directional |-> 1, Point |-> 2, Spot |-> 3,
                          Ambient |-> 4, Area |-> 5]]

\* v as u32
Discriminant(e, v) == EnumTable[e][v]

\* E::from_ffi(x): the transmute of x, read as the variant it is.
EnumFromFfi(e, x) ==
    LET r == FromFfi({Discriminant(e, v) : v \in DOMAIN EnumTable[e]}, x)
    IN  IF r.kind = "Variant"
        THEN [kind |-> "Variant", code |-> r.code,
              name |-> CHOOSE v \in DOMAIN EnumTable[e] : Discriminant(e, v) = r.code]
        ELSE [kind |-> r.kind, code |-> r.code, name |-> "?"]

\* a call of E::from_ffi on a code the engine supplies
FromFfiCall ==
    \E e \in DOMAIN EnumTable, x \in 0..MaxCode :
        /\ enumArg' = [enum |-> e, code |-> x]
        /\ enumOut' = EnumFromFfi(e, x)
        /\ UNCHANGED <<sliceArg, sliceOut>>
        /\ UNCHANGED <<metaVars, matVars, sceneVars, embeddedVars, treeVars, meshVars>>

(***************************************************************************)
(* texture.rs: the embedded texture.                                       *)
(***************************************************************************)
MaxDim == 2
\* a dimension large enough for 4 * BigDim * BigDim to leave the u32 range
BigDim == 32768

\* The textures the engine hands out.  With mHeight = 0 the data are mWidth
\* bytes of a compressed file; otherwise mWidth * mHeight texels, and the
\* hint is undefined.  achFormatHint is "\0\0\0\0", an extension, or bytes
\* that are not UTF-8.
Textures ==
    [mWidth : 0..MaxDim \cup {BigDim}, mHeight : 0..MaxDim \cup {BigDim},
     achFormatHint : {StrEmpty, StrA, StrBad}, pcData : {ArrayA}]

\* Texture::format_hint
FormatHint(t) ==
    IF t.mHeight # 0 THEN [kind |-> "None", str |-> NoStr]
    ELSE IF Utf8Valid(t.achFormatHint)
    THEN [kind |-> "Some", str |-> t.achFormatHint]
    ELSE [kind |-> "None", str |-> NoStr]

\* a * b on c_uint (u32): ovf when the exact product is 2^32 or more, v the
\* product modulo 2^32, by 16-bit halves.  (Exact for the factors of the
\* model: the low halves' product and v stay below 2^31.)
MulU32(a, b) ==
    LET half == 65536
        mid == (a \div half) * (b % half) + (a % half) * (b \div half)
        low == (a % half) * (b % half)
        carry == mid + (low \div half)
    IN  [ovf |-> (a \div half) * (b \div half) > 0 \/ carry >= half,
         v |-> ((carry % half) * half) + (low % half)]

\* Texture::as_texels: w * h, then prim::slice from ffi::aiTexel to
\* prim::Texel.  checks: the build has overflow checks (a debug build), where
\* an overflowing multiplication panics; without them it wraps.
AsTexels(t, checks) ==
    IF t.mHeight = 0 THEN [kind |-> "None", w |-> 0, h |-> 0, texels |-> EmptySlice]
    ELSE
      LET len == MulU32(t.mWidth, t.mHeight)
          texels == PrimSlice(AiTexelSize, TexelSize, t.pcData, len.v)
      IN  IF (len.ovf /\ checks) \/ texels.kind = "Panic"
          THEN [kind |-> "Panic", w |-> 0, h |-> 0, texels |-> EmptySlice]
          ELSE [kind |-> "Some", w |-> t.mWidth, h |-> t.mHeight, texels |-> texels]

\* Texture::as_bytes: len = if h == 0 { w } else { h * w * 4 }, then
\* prim::slice from u8 to u8.
AsBytes(t, checks) ==
    LET hw == MulU32(t.mHeight, t.mWidth)
        hw4 == MulU32(hw.v, 4)
    IN  IF t.mHeight = 0 THEN PrimSlice(1, 1, t.pcData, t.mWidth)
        ELSE IF checks /\ (hw.ovf \/ hw4.ovf)
        THEN [kind |-> "Panic", ptr |-> Dangling, len |-> 0]
        ELSE PrimSlice(1, 1, t.pcData, hw4.v)

\* No call on the texture has panicked.
TexRunning == texelsOut.kind # "Panic" /\ bytesOut.kind # "Panic"

\* a call of Texture::format_hint
TexFormatHint ==
    /\ TexRunning
    /\ hintOut' = FormatHint(texture)
    /\ UNCHANGED <<texture, texelsOut, bytesOut>>
    /\ UNCHANGED <<metaVars, matVars, sceneVars, primVars, treeVars, meshVars>>

\* a call of Texture::as_texels
TexAsTexels ==
    /\ TexRunning
    /\ \E checks \in BOOLEAN : texelsOut' = AsTexels(texture, checks)
    /\ UNCHANGED <<texture, hintOut, bytesOut>>
    /\ UNCHANGED <<metaVars, matVars, sceneVars, primVars, treeVars, meshVars>>

\* a call of Texture::as_bytes
TexAsBytes ==
    /\ TexRunning
    /\ \E checks \in BOOLEAN : bytesOut' = AsBytes(texture, checks)
    /\ UNCHANGED <<texture, hintOut, texelsOut>>
    /\ UNCHANGED <<metaVars, matVars, sceneVars, primVars, treeVars, meshVars>>

(***************************************************************************)
(* mesh.rs: the vertex attribute arrays of a mesh.                         *)
(***************************************************************************)
\* The lengths of aiMesh::mColors and aiMesh::mTextureCoords.
MAX_COLOR_SETS == 2
MAX_TEXTURE_COORDS == 2

\* size_of Vector3 = size_of aiVector3D, size_of Color4 = size_of aiColor4D
Vector3Size == 12
Color4Size == 16

\* The meshes the engine hands out: mNumVertices, and per attribute a null
\* pointer or an array of mNumVertices elements.  Tangents and bitangents
\* come together; a UV channel that is present has two components.
AiMeshes ==
    { [mNumVertices |-> n,
       mVertices |-> IF n = 0 THEN NullPtr ELSE ArrayA,
       mNormals |-> IF nor THEN 2 * ArrayA ELSE NullPtr,
       mTangents |-> IF tan THEN 3 * ArrayA ELSE NullPtr,
       mBitangents |-> IF tan THEN 4 * ArrayA ELSE NullPtr,
       mColors |-> [c \in 0..(MAX_COLOR_SETS - 1) |->
                      IF col[c] THEN (8 + c) * ArrayA ELSE NullPtr],
       mTextureCoords |-> [c \in 0..(MAX_TEXTURE_COORDS - 1) |->
                             IF uv[c] THEN (16 + c) * ArrayA ELSE NullPtr],
       mNumUVComponents |-> [c \in 0..(MAX_TEXTURE_COORDS - 1) |->
                               IF uv[c] THEN 2 ELSE 0]] :
        n \in 0..MaxLen, nor \in BOOLEAN, tan \in BOOLEAN,
        col \in [0..(MAX_COLOR_SETS - 1) -> BOOLEAN],
        uv \in [0..(MAX_TEXTURE_COORDS - 1) -> BOOLEAN] }

\* if channel >= ffi::AI_MAX_NUMBER_OF_...
ChannelGuardLax(channel, max) == channel > max
ChannelGuard(channel, max) == channel >= max

\* The accessors of a mesh.  at is the position of the channel array that
\* was indexed (NoChannel: none); indexing a Rust array out of its bounds
\* panics.  kind "Ok" | "Panic" | "Count" (num_uv_components, the count in len).
NoChannel == 0 - 1
MeshAttrAsVertices(m, fn, channel) ==
    [kind |-> "Ok", ptr |-> m.mVertices, len |-> m.mNumVertices, at |-> NoChannel]
MeshAttr(m, fn, channel) ==
    LET n == m.mNumVertices
        whole(ptr) == PrimSlice(Vector3Size, Vector3Size, ptr, n) @@ [at |-> NoChannel]
        bounds == [kind |-> "Panic", ptr |-> Dangling, len |-> 0, at |-> channel]
    IN  CASE fn = "vertices" -> whole(m.mVertices)
          [] fn = "normals" -> whole(m.mNormals)
          [] fn = "tangents" -> whole(m.mTangents)
          [] fn = "bitangents" -> whole(m.mBitangents)
          [] fn = "colors" ->
               IF ChannelGuard(channel, MAX_COLOR_SETS)
               THEN EmptySlice @@ [at |-> NoChannel]
               ELSE IF channel \notin DOMAIN m.mColors THEN bounds
               ELSE PrimSlice(Color4Size, Color4Size, m.mColors[channel], n)
                    @@ [at |-> channel]
          [] fn = "texture_coords" ->
               IF ChannelGuard(channel, MAX_TEXTURE_COORDS)
               THEN EmptySlice @@ [at |-> NoChannel]
               ELSE IF channel \notin DOMAIN m.mTextureCoords THEN bounds
               ELSE PrimSlice(Vector3Size, Vector3Size, m.mTextureCoords[channel], n)
                    @@ [at |-> channel]
          [] OTHER ->
               IF ChannelGuard(channel, MAX_TEXTURE_COORDS)
               THEN [kind |-> "Count", ptr |-> Dangling, len |-> 0, at |-> NoChannel]
               ELSE IF channel \notin DOMAIN m.mNumUVComponents THEN bounds
               ELSE [kind |-> "Count", ptr |-> Dangling,
                     len |-> m.mNumUVComponents[channel], at |-> channel]

\* a call of an accessor of the mesh
MeshCall ==
    /\ meshOut.kind # "Panic"
    /\ \E fn \in {"vertices", "normals", "tangents", "bitangents", "colors",
                   "texture_coords", "num_uv_components"},
          channel \in 0..(MAX_COLOR_SETS + 1) :
         /\ fn \in {"vertices", "normals", "tangents", "bitangents"} => channel = 0
         /\ meshOut' = [fn |-> fn, channel |-> channel] @@ MeshAttr(mesh, fn, channel)
    /\ UNCHANGED <<mesh, metaVars, matVars, sceneVars, primVars, embeddedVars, treeVars>>

(***************************************************************************)
(* scene.rs: the node tree, navigated one call at a time.                  *)
(***************************************************************************)
MaxNodes == 3

\* The aiNode record at address n of a tree of k nodes with parent links
\* par; md is its aiNode::mMetaData, null or a block.  mChildren points at
\* the array of the addresses of the nodes whose parent n is.  Every node
\* but the root owns one mesh: mMeshes points at the array of its index,
\* n - 2, into the scene's mesh list.
TreeNode(par, k, n, md) ==
    LET kids == SelectSeq([i \in 1..k |-> i], LAMBDA c : par[c] = n)
    IN  [mParent |-> par[n],
         mNumChildren |-> Len(kids),
         mChildren |-> IF kids = <<>> THEN NullPtr ELSE 2048 + n,
         kids |-> kids,
         mMetaData |-> IF md.has THEN 1024 + n ELSE NullPtr,
         meta |-> md.block,
         mNumMeshes |-> IF n = 1 THEN 0 ELSE 1,
         mMeshes |-> IF n = 1 THEN NullPtr ELSE 3072 + n,
         meshIdx |-> IF n = 1 THEN <<>> ELSE <<n - 2>>]

\* The scenes the engine hands out: a tree of 1..MaxNodes nodes (node n at
\* address n, node 1 the root, every other node under an earlier one, each
\* with no metadata or an empty block whose arrays may be null), or (the
\* import left incomplete) no root node at all.
Graphs ==
    LET block(p, q) ==
            [mNumProperties |-> 0, mKeys |-> p, mValues |-> q, entries |-> <<>>]
        mds == { [has |-> FALSE, block |-> block(NullPtr, NullPtr)] }
               \cup { [has |-> TRUE, block |-> block(p, q)] :
                        p \in {NullPtr, KeysBase}, q \in {NullPtr, ValuesBase} }
    IN  UNION { { [mRootNode |-> RootNodePtr,
                   nodes |-> [n \in 1..k |-> TreeNode(par, k, n, md[n])],
                   mNumMeshes |-> k - 1,
                   mMeshes |-> IF k = 1 THEN NullPtr ELSE 3072] :
                    par \in {q \in [1..k -> 0..k] :
                               q[1] = NullPtr /\ \A n \in 2..k : q[n] \in 1..(n - 1)},
                    md \in [1..k -> mds] } :
                k \in 1..MaxNodes }
        \cup { [mRootNode |-> NullPtr, nodes |-> <<>>, mNumMeshes |-> 0,
                 mMeshes |-> NullPtr] }

\* ai_ptr_type!::from_ptr: the assertion, then the view.
FromPtrUnchecked(ptr) == [kind |-> "View", ptr |-> ptr]
FromPtr(ptr) ==
    IF ptr = NullPtr THEN [kind |-> "Panic", ptr |-> NullPtr]
    ELSE [kind |-> "View", ptr |-> ptr]

\* Scene::from_ptr
SceneFromPtr(ptr) ==
    IF ptr = NullPtr THEN [kind |-> "Panic", ptr |-> NullPtr]
    ELSE [kind |-> "View", ptr |-> ptr]

\* Option<view>: None for a null link, Some(from_ptr(link)) otherwise, where
\* from_ptr may panic.
SomeView(v) == IF v.kind = "View" THEN [kind |-> "Some", ptr |-> v.ptr] ELSE v
OptionView(link) ==
    IF link = NullPtr THEN [kind |-> "None", ptr |-> NullPtr]
    ELSE SomeView(FromPtr(link))

\* Scene::root_node
Scene_root_node(g) == FromPtr(g.mRootNode)

\* Node::parent
Node_parent_unguarded(g, n) == SomeView(FromPtr(g.nodes[n].mParent))
Node_parent(g, n) == OptionView(g.nodes[n].mParent)

\* Node::children: the pointer array bridged to a slice of Node views.
Node_children(g, n) ==
    LET sl == AiPtrTypeSlice(g.nodes[n].mChildren, g.nodes[n].mNumChildren)
    IN  [i \in 1..sl.len |-> [kind |-> "View", ptr |-> g.nodes[n].kids[i]]]

\* Node::meshes: the index array bridged to a slice of MeshIdx (u32).
Node_meshes(g, n) ==
    LET sl == PrimSlice(4, 4, g.nodes[n].mMeshes, g.nodes[n].mNumMeshes)
    IN  [i \in 1..sl.len |-> [kind |-> "Index", ptr |-> g.nodes[n].meshIdx[i]]]

\* Scene::meshes: the pointer array bridged to a slice of Mesh views.
Scene_meshes_none(g) == <<>>
Scene_meshes(g) ==
    LET sl == AiPtrTypeSlice(g.mMeshes, g.mNumMeshes)
    IN  [i \in 1..sl.len |-> [kind |-> "View", ptr |-> 5120 + i]]

\* Node::meta_data
Node_meta_data(g, n) == OptionView(g.nodes[n].mMetaData)

\* MetaData::iter on the block of node n
MetaData_iter(g, n) ==
    IF IterNewOk(g.nodes[n].meta) THEN [kind |-> "Iter", ptr |-> g.nodes[n].mMetaData]
    ELSE [kind |-> "Panic", ptr |-> NullPtr]

\* A navigation call and what it returned.
Nav(op, ty, from, idx, out) ==
    [op |-> op, ty |-> ty, from |-> from, idx |-> idx, kind |-> out.kind, ptr |-> out.ptr,
     len |-> 0]

\* Element i of the slice seq a call returned (the slice alone when it is
\* empty), with the length of the slice.
NavSlice(op, ty, from, seq, i) ==
    [Nav(op, ty, from, i, IF i = 0 THEN [kind |-> "Empty", ptr |-> NullPtr] ELSE seq[i])
       EXCEPT !.len = Len(seq)]

\* scene.root_node()
TreeRootNode ==
    /\ navOut.kind # "Panic"
    /\ LET r == Scene_root_node(graph)
       IN  /\ navOut' = Nav("root_node", "Node", graph.mRootNode, 0, r)
           /\ node' = IF r.kind = "View" THEN r ELSE node
    /\ UNCHANGED <<graph, metaVars, matVars, sceneVars, primVars, embeddedVars, meshVars>>

\* node.parent()
TreeParent ==
    /\ navOut.kind # "Panic"
    /\ node.kind = "View"
    /\ LET r == Node_parent(graph, node.ptr)
       IN  /\ navOut' = Nav("parent", "Node", node.ptr, 0, r)
           /\ node' = IF r.kind = "Some" THEN [kind |-> "View", ptr |-> r.ptr] ELSE node
    /\ UNCHANGED <<graph, metaVars, matVars, sceneVars, primVars, embeddedVars, meshVars>>

\* node.children()[i - 1]
TreeChild ==
    /\ navOut.kind # "Panic"
    /\ node.kind = "View"
    /\ \E i \in 1..Len(Node_children(graph, node.ptr)) :
         /\ navOut' = NavSlice("children", "Node", node.ptr,
                                Node_children(graph, node.ptr), i)
         /\ node' = Node_children(graph, node.ptr)[i]
    /\ UNCHANGED <<graph, metaVars, matVars, sceneVars, primVars, embeddedVars, meshVars>>

\* node.meshes()[i - 1]
TreeNodeMeshes ==
    /\ navOut.kind # "Panic"
    /\ node.kind = "View"
    /\ LET ms == Node_meshes(graph, node.ptr)
       IN  \E i \in IF ms = <<>> THEN {0} ELSE 1..Len(ms) :
             navOut' = NavSlice("meshes", "MeshIdx", node.ptr, ms, i)
    /\ UNCHANGED <<graph, node, metaVars, matVars, sceneVars, primVars, embeddedVars,
                   meshVars>>

\* scene.meshes()[i - 1]
TreeSceneMeshes ==
    /\ navOut.kind # "Panic"
    /\ LET ms == Scene_meshes(graph)
       IN  \E i \in IF ms = <<>> THEN {0} ELSE 1..Len(ms) :
             navOut' = NavSlice("scene.meshes", "Mesh", NullPtr, ms, i)
    /\ UNCHANGED <<graph, node, metaVars, matVars, sceneVars, primVars, embeddedVars,
                   meshVars>>

\* node.meta_data()
TreeMetaData ==
    /\ navOut.kind # "Panic"
    /\ node.kind = "View"
    /\ navOut' = Nav("meta_data", "MetaData", node.ptr, 0, Node_meta_data(graph, node.ptr))
    /\ UNCHANGED <<graph, node, metaVars, matVars, sceneVars, primVars,
                   embeddedVars, meshVars>>

\* node.meta_data().unwrap().iter()
TreeMetaIter ==
    /\ navOut.kind # "Panic"
    /\ node.kind = "View"
    /\ Node_meta_data(graph, node.ptr).kind = "Some"
    /\ navOut' = Nav("iter", "Iter", node.ptr, 0, MetaData_iter(graph, node.ptr))
    /\ UNCHANGED <<graph, node, metaVars, matVars, sceneVars, primVars,
                   embeddedVars, meshVars>>

\* T::from_ptr(ptr), the unsafe constructor called directly, for the types
\* an ai_ptr_type! declares and for Scene
TreeFromPtr ==
    /\ navOut.kind # "Panic"
    /\ \E ty \in {"Node", "MetaData", "Mesh", "Material", "Texture", "Light", "Camera",
                  "Animation", "Scene"},
          ptr \in {NullPtr, RootNodePtr} :
         navOut' = Nav("from_ptr", ty, ptr, 0,
                       IF ty = "Scene" THEN SceneFromPtr(ptr) ELSE FromPtr(ptr))
    /\ UNCHANGED <<graph, node, metaVars, matVars, sceneVars, primVars,
                   embeddedVars, meshVars>>

(***************************************************************************)
(* Specifications.                                                         *)
(***************************************************************************)
MetaIdle ==
    /\ itState = "none"
    /\ itIdx = 0
    /\ itOut = [kind |-> "New", pair |-> NoPair]
    /\ yielded = <<>>
    /\ readLog = {}
    /\ getArg = NoStr
    /\ getOut = [kind |-> "New", val |-> NoVal]

MatIdle ==
    /\ matOut = [kind |-> "New", rec |-> NoProps]
    /\ texArg = [op |-> "none", sem |-> 0, idx |-> 0]
    /\ texOut = [kind |-> "New"]
    /\ ffiCalls = <<>>

NoResult == [kind |-> "None", h |-> NullPtr, msg |-> NoError]

\* No import yet.
SceneStart ==
    /\ call = [t \in Threads |-> [no |-> 0, buf |-> <<>>, past |-> FALSE]]
    /\ pc = [t \in Threads |-> "idle"]
    /\ ret = [t \in Threads |-> NullPtr]
    /\ callLog = [t \in Threads |-> <<>>]
    /\ result = [t \in Threads |-> NoResult]
    /\ lastError = NoError
    /\ nImports = 0
    /\ released = <<>>
    /\ scenes = {}
    /\ dropped = {}
    /\ views = {}
    /\ viewsRead = {}
    /\ staleReads = {}

\* The caller ends the string it passes with a NUL of its own: "a\0".
SceneIdle == SceneStart /\ strArg = <<97, 0>>

\* No call of the bridge, of a translator, on the texture or on the tree yet.
CallsIdle ==
    /\ sliceArg = [fn |-> "none", sizeT |-> 0, sizeU |-> 0, ptr |-> NullPtr, len |-> 0]
    /\ sliceOut = [kind |-> "New", ptr |-> Dangling, len |-> 0]
    /\ enumArg = [enum |-> "none", code |-> 0]
    /\ enumOut = [kind |-> "New", code |-> 0, name |-> "?"]
    /\ hintOut = [kind |-> "New", str |-> NoStr]
    /\ texelsOut = [kind |-> "New", w |-> 0, h |-> 0, texels |-> EmptySlice]
    /\ bytesOut = [kind |-> "New", ptr |-> Dangling, len |-> 0]
    /\ meshOut = [fn |-> "none", channel |-> 0, kind |-> "New", ptr |-> Dangling,
                  len |-> 0, at |-> NoChannel]
    /\ node = [kind |-> "none", ptr |-> NullPtr]
    /\ navOut = Nav("none", "none", NullPtr, 0, [kind |-> "New", ptr |-> NullPtr])

OthersIdle ==
    /\ CallsIdle
    /\ mesh = CHOOSE m \in AiMeshes : m.mNumVertices = 0
    /\ texture = CHOOSE t \in Textures : TRUE
    /\ graph = [mRootNode |-> NullPtr, nodes |-> <<>>, mNumMeshes |-> 0,
                mMeshes |-> NullPtr]

InitMeta ==
    /\ metaData \in MetaBlocks
    /\ MetaIdle
    /\ matStore = CHOOSE st \in MatStores : TRUE
    /\ texStore = [sem \in Semantics |-> <<>>]
    /\ MatIdle
    /\ SceneIdle
    /\ OthersIdle

NextMeta == MetaIter \/ MetaNext \/ MetaGet

SpecMeta == InitMeta /\ [][NextMeta]_vars

InitMaterial ==
    /\ metaData = CHOOSE md \in MetaBlocks : TRUE
    /\ MetaIdle
    /\ matStore \in MatStores
    /\ texStore = [sem \in Semantics |-> <<>>]
    /\ MatIdle
    /\ SceneIdle
    /\ OthersIdle

NextMaterial == MatProps

SpecMaterial == InitMaterial /\ [][NextMaterial]_vars

InitTexture ==
    /\ metaData = CHOOSE md \in MetaBlocks : TRUE
    /\ MetaIdle
    /\ matStore = CHOOSE st \in MatStores : TRUE
    /\ texStore \in TexStores
    /\ MatIdle
    /\ SceneIdle
    /\ OthersIdle

NextTexture == TexCount \/ TexProps

SpecTexture == InitTexture /\ [][NextTexture]_vars

InitScene ==
    /\ metaData = CHOOSE md \in MetaBlocks : TRUE
    /\ MetaIdle
    /\ matStore = CHOOSE st \in MatStores : TRUE
    /\ texStore = [sem \in Semantics |-> <<>>]
    /\ MatIdle
    /\ SceneIdle
    /\ OthersIdle

NextScene ==
    \/ \E t \in Threads : ImportCall(t)
    \/ \E t \in Threads : ImportReturn(t)
    \/ RootNode
    \/ Meshes
    \/ Children
    \/ Parent
    \/ NodeMetaData
    \/ ViewIter
    \/ ReadView
    \/ DropView
    \/ DropScene

SpecScene == InitScene /\ [][NextScene]_vars

\* The import calls alone, for a caller that passes "a", "a\0" or "".
InitImport ==
    /\ metaData = CHOOSE md \in MetaBlocks : TRUE
    /\ MetaIdle
    /\ matStore = CHOOSE st \in MatStores : TRUE
    /\ texStore = [sem \in Semantics |-> <<>>]
    /\ MatIdle
    /\ SceneStart
    /\ strArg \in {StrA, <<97, 0>>, StrEmpty}
    /\ OthersIdle

NextImport ==
    \/ \E t \in Threads : ImportCall(t)
    \/ \E t \in Threads : ImportReturn(t)

SpecImport == InitImport /\ [][NextImport]_vars

ForeignIdle ==
    /\ metaData = CHOOSE md \in MetaBlocks : TRUE
    /\ MetaIdle
    /\ matStore = CHOOSE st \in MatStores : TRUE
    /\ texStore = [sem \in Semantics |-> <<>>]
    /\ MatIdle
    /\ SceneIdle

InitPrim == ForeignIdle /\ OthersIdle

NextPrim == Slice \/ FromFfiCall

SpecPrim == InitPrim /\ [][NextPrim]_vars

InitEmbedded ==
    /\ ForeignIdle
    /\ CallsIdle
    /\ texture \in Textures
    /\ graph = [mRootNode |-> NullPtr, nodes |-> <<>>, mNumMeshes |-> 0,
                mMeshes |-> NullPtr]
    /\ mesh = CHOOSE m \in AiMeshes : m.mNumVertices = 0

NextEmbedded == TexFormatHint \/ TexAsTexels \/ TexAsBytes

SpecEmbedded == InitEmbedded /\ [][NextEmbedded]_vars

InitTree ==
    /\ ForeignIdle
    /\ CallsIdle
    /\ texture = CHOOSE t \in Textures : TRUE
    /\ graph \in Graphs
    /\ mesh = CHOOSE m \in AiMeshes : m.mNumVertices = 0

NextTree ==
    \/ TreeRootNode
    \/ TreeParent
    \/ TreeChild
    \/ TreeNodeMeshes
    \/ TreeSceneMeshes
    \/ TreeMetaData
    \/ TreeMetaIter
    \/ TreeFromPtr

SpecTree == InitTree /\ [][NextTree]_vars

InitMesh ==
    /\ ForeignIdle
    /\ CallsIdle
    /\ texture = CHOOSE t \in Textures : TRUE
    /\ graph = [mRootNode |-> NullPtr, nodes |-> <<>>, mNumMeshes |-> 0,
                mMeshes |-> NullPtr]
    /\ mesh \in AiMeshes

NextMesh == MeshCall

SpecMesh == InitMesh /\ [][NextMesh]_vars

(***************************************************************************)
(* Claims about the metadata iterator (SpecMeta).                          *)
(***************************************************************************)
\* What the block holds at array position i (0-based), decoded by its tag.
EntryPair(md, i) ==
    [key |-> md.entries[i + 1].key,
     val |-> <<VariantOf(md.entries[i + 1].mType), Heap(md.entries[i + 1].mData)>>]

Recognised(md, i) == md.entries[i + 1].mType # AI_META_OTHER
HasValue(md, i) == md.entries[i + 1].mData # NullPtr
Positions(md) == 0..(md.mNumProperties - 1)

\* The positions of md in array order, those without a value left out.
RECURSIVE PresentFrom(_, _)
PresentFrom(md, i) ==
    IF i >= md.mNumProperties THEN <<>>
    ELSE IF HasValue(md, i) THEN <<EntryPair(md, i)>> \o PresentFrom(md, i + 1)
    ELSE PresentFrom(md, i + 1)

IsPrefix(s, t) == Len(s) <= Len(t) /\ \A j \in 1..Len(s) : s[j] = t[j]

AllPresent(md) ==
    /\ IterNewOk(md)
    /\ \A i \in Positions(md) : Recognised(md, i) /\ HasValue(md, i)

OneMissing(md) ==
    /\ IterNewOk(md)
    /\ \A i \in Positions(md) : Recognised(md, i)
    /\ Cardinality({i \in Positions(md) : ~HasValue(md, i)}) = 1

\* C4: on a block of N entries that all have a value, the iterator yields
\* entry 0, entry 1, ... entry N-1 in this order, each decoded by its tag,
\* and returns None only after all N; it neither panics nor crashes.
C4_YieldsAllInOrder ==
    (itState # "none" /\ AllPresent(metaData)) =>
        /\ itOut.kind \in {"New", "Some", "None"}
        /\ IsPrefix(yielded, PresentFrom(metaData, 0))
        /\ (itOut.kind = "None" => Len(yielded) = metaData.mNumProperties)

\* C5: on a block where exactly one entry has a null value pointer, that
\* entry is skipped without a crash and the other N-1 entries are yielded
\* in their original order.
C5_SkipsNullValue ==
    (itState # "none" /\ OneMissing(metaData)) =>
        /\ itOut.kind \in {"New", "Some", "None"}
        /\ IsPrefix(yielded, PresentFrom(metaData, 0))
        /\ (itOut.kind = "None" => Len(yielded) = metaData.mNumProperties - 1)

\* The first position, from 0, whose key is key.
KeyPositions(md, key) == {i \in Positions(md) : md.entries[i + 1].key = key}
FirstPosition(md, key) ==
    CHOOSE i \in KeyPositions(md, key) : \A j \in KeyPositions(md, key) : i <= j

\* C6: get(key) returns the value of the first entry, from entry 0, whose key
\* is key, and None, without a panic, when no entry has that key.
C6_GetFirstMatch ==
    (getOut.kind # "New" /\ AllPresent(metaData)) =>
        IF KeyPositions(metaData, getArg) = {}
        THEN getOut = [kind |-> "None", val |-> NoVal]
        ELSE getOut = [kind |-> "Some",
                       val |-> EntryPair(metaData, FirstPosition(metaData, getArg)).val]

\* The array position the last Iter::next read, when it lies in the block.
LastReadInBlock ==
    /\ itOut.kind \notin {"New", "None"}
    /\ itIdx < metaData.mNumProperties

\* C15: a value whose tag is none of the six the match names is never
\* yielded: the next() that reaches such an entry panics, and a value
\* yielded from an entry is the variant of that entry's tag.
C15_UnknownTagPanics ==
    /\ \A j \in 1..Len(yielded) :
         yielded[j].val[1] \in {"Bool", "I32", "U64", "F32", "Vector3", "String"}
    /\ LastReadInBlock =>
         LET tag == metaData.entries[itIdx + 1].mType
         IN  /\ (tag = AI_META_OTHER => itOut.kind = "Panic" /\ itState = "panicked")
             /\ (itOut.kind = "Some" =>
                   /\ tag # AI_META_OTHER
                   /\ itOut.pair.val[1] = VariantOf(tag))

C15_Witness ==
    /\ LastReadInBlock
    /\ metaData.entries[itIdx + 1].mType = AI_META_OTHER
    /\ itState = "panicked"

\* C17: on a block whose entries all have a value, every iterator iter()
\* returns starts at idx 0 whatever was iterated before, its first item is
\* entry 0 and its items are the block's entries in order; and once next()
\* has returned None, every later next() on that iterator returns None.
C17_RestartableFused ==
    /\ [](AllPresent(metaData) =>
            /\ (itOut.kind = "New" /\ itState = "live" => itIdx = 0 /\ yielded = <<>>)
            /\ (Len(yielded) > 0 => yielded[1] = EntryPair(metaData, 0))
            /\ IsPrefix(yielded, PresentFrom(metaData, 0)))
    /\ [][(AllPresent(metaData) /\ itOut.kind = "None") =>
            itOut'.kind \in {"None", "New"}]_vars

(***************************************************************************)
(* Claims about the material queries (SpecMaterial, SpecTexture).          *)
(***************************************************************************)
MatCalled == matOut.kind # "New"

\* C7: on a store without opacity, refraction-index and shading-model key,
\* material_properties returns a record with opacity 1.0, refracti 1.0 and
\* shading mode Gouraud, each default applying whenever its own key is absent.
C7_DefaultsReturned ==
    MatCalled =>
        /\ matOut.kind = "Some"
        /\ (~matStore.opacity.has => matOut.rec.opacity = 100)
        /\ (~matStore.refracti.has => matOut.rec.refracti = 100)
        /\ (~matStore.shadingm.has =>
              matOut.rec.shading_mode = [kind |-> "Variant", code |-> ShadingGouraud])

\* The field of the result record that reports a key of the store.
FieldOf(rec, k) ==
    CASE k = "twosided" -> IF rec.twosided THEN 1 ELSE 0
      [] k = "shadingm" -> rec.shading_mode.code
      [] k = "wireframe" -> IF rec.wireframe THEN 1 ELSE 0
      [] k = "blend" -> rec.blend_mode.code
      [] k = "opacity" -> rec.opacity
      [] k = "bumpscaling" -> rec.bumpscaling
      [] k = "shininess" -> rec.shininess
      [] k = "shinpercent" -> rec.shininess_strength
      [] k = "reflectivity" -> rec.reflectivity
      [] k = "refracti" -> rec.refracti
      [] k = "diffuse" -> rec.color_diffuse
      [] k = "ambient" -> rec.color_ambient
      [] k = "specular" -> rec.color_specular
      [] k = "emissive" -> rec.color_emissive
      [] k = "transparent" -> rec.color_transparent
      [] k = "reflective" -> rec.color_reflective

ScalarKeys == {MatIntKeys[i] : i \in 1..Len(MatIntKeys)}
                 \cup {MatFloatKeys[i] : i \in 1..Len(MatFloatKeys)}
ColorKeys == {MatColorKeys[i] : i \in 1..Len(MatColorKeys)}

\* C8: material_properties returns a record for every store, whichever keys
\* (the name key included) are absent; each absent key reads as its default.
C8_AggregateNeverPanics ==
    MatCalled =>
        /\ matOut.kind # "Panic"
        /\ \A k \in ScalarKeys :
             ~matStore[k].has => FieldOf(matOut.rec, k) = MatLocals[k]
        /\ \A k \in ColorKeys :
             ~matStore[k].has => FieldOf(matOut.rec, k) = Col4(MatLocals[k])

TexCalled == texArg.op = "props"
TexInRange == texArg.idx < Len(texStore[texArg.sem])

\* C9: texture_properties(semantic, i) is None for every i >= the count of the
\* semantic; the count is queried first and the binding query is not issued
\* for such an index.
C9_OutOfRangeIsNone ==
    TexCalled =>
        /\ ffiCalls[1] = "aiGetMaterialTextureCount"
        /\ (~TexInRange =>
              /\ texOut = [kind |-> "None"]
              /\ ffiCalls = <<"aiGetMaterialTextureCount">>)

C9_Witness ==
    /\ TexCalled
    /\ ~TexInRange
    /\ Len(texStore[texArg.sem]) > 0
    /\ texOut = [kind |-> "None"]

\* C10: for every i < the count of the semantic, texture_properties returns
\* Some binding whose map_mode holds exactly two wrap modes, the U one first
\* and the V one second, as the engine wrote them.
C10_InRangeIsSome ==
    (TexCalled /\ TexInRange) =>
        /\ texOut.kind = "Some"
        /\ Len(texOut.rec.map_mode) = 2
        /\ LET a == texStore[texArg.sem][texArg.idx + 1]
           IN  a.mapmode.has =>
                 /\ texOut.rec.map_mode[1].code = a.mapmode.v[1]
                 /\ texOut.rec.map_mode[2].code = a.mapmode.v[2]

\* What the engine answered to the binding query of the last call.
TexAnswer == FfiTexture(texStore, texArg.sem, texArg.idx)

\* C11: texture_properties never panics: when the binding query reports
\* failure it returns None, and when the query succeeds it returns Some,
\* whatever the engine wrote (an empty path, a flags word with bits outside
\* INVERT | USE_ALPHA | IGNORE_ALPHA included).
C11_TextureNeverPanics ==
    TexCalled =>
        /\ texOut.kind # "Panic"
        /\ (TexInRange /\ TexAnswer.ret # "SUCCESS" => texOut.kind = "None")
        /\ (TexInRange /\ TexAnswer.ret = "SUCCESS" => texOut.kind = "Some")

(***************************************************************************)
(* Claims about the ownership root and its views (SpecScene).              *)
(***************************************************************************)
\* C1: the engine's release is called exactly once on the handle of every
\* Scene a successful import produced, when that Scene is dropped; obtaining
\* or reading a view never releases.
C1_ReleasedOnceAtDrop ==
    /\ scenes \cap dropped = {}
    /\ \A h \in DOMAIN released :
         released[h] = IF h \in dropped THEN 1 ELSE 0

C1_Witness ==
    \E h \in dropped, g \in scenes :
        /\ released[h] = 1
        /\ released[g] = 0
        /\ g \in viewsRead

\* C2: when the import call returned null, from_file / from_bytes return
\* Err(the engine's last-error text as read then, made a String); they
\* construct no Scene, release nothing and make no second import call.
C2_NullHandleIsErr ==
    [][\A t \in Threads :
         (pc[t] = "returned" /\ ret[t] = NullPtr /\ pc'[t] = "idle") =>
            /\ result'[t].kind = "Err"
            /\ result'[t].msg.call = lastError.call
            /\ result'[t].msg.text = ToStringLossy(lastError.text)
            /\ scenes' = scenes
            /\ released' = released
            /\ nImports' = nImports
            /\ Len(callLog[t]) = 1
            /\ callLog'[t] = <<callLog[t][1], "aiGetErrorString">>]_vars

C2_Witness ==
    \E t \in Threads :
        /\ pc[t] = "idle"
        /\ result[t].kind = "Err"
        /\ result[t].msg # NoError

\* C3: whatever the safe API is used for, no view derived from a Scene is
\* read after that Scene has been released.
C3_NoReadAfterRelease == staleReads = {}

C3_Witness ==
    /\ \E h \in dropped : h \in viewsRead
    /\ \E v \in views : v.scene \in viewsRead

(***************************************************************************)
(* Claims about the sequence bridge (SpecPrim).                            *)
(***************************************************************************)
Bridged == sliceArg.fn # "none"
SameSize == sliceArg.sizeT = sliceArg.sizeU

\* C12: for element types of equal size, bridging a null pointer with any
\* count, or any pointer with count 0, returns the empty sequence, and the
\* same one whichever of the two triggered it.
C12_NullOrZeroIsEmpty ==
    (Bridged /\ SameSize /\ (sliceArg.ptr = NullPtr \/ sliceArg.len = 0)) =>
        sliceOut = EmptySlice

C12_Witness ==
    /\ Bridged
    /\ SameSize
    /\ sliceArg.ptr = NullPtr
    /\ sliceArg.len > 0
    /\ sliceOut = EmptySlice

\* C13: bridging a non-null pointer p with count n > 0 returns a sequence of
\* exactly n elements that starts at p; its element i is the foreign memory
\* of element i at p.
C13_NonNullIsAlias ==
    (Bridged /\ SameSize /\ sliceArg.ptr # NullPtr /\ sliceArg.len > 0) =>
        /\ sliceOut.kind = "Ok"
        /\ sliceOut.len = sliceArg.len
        /\ sliceOut.ptr = sliceArg.ptr
        /\ \A i \in 0..(sliceArg.len - 1) :
             SliceGet(sliceOut, sliceArg.sizeU, i)
               = <<"foreign", sliceArg.ptr + i * sliceArg.sizeT>>

C13_Witness ==
    /\ sliceArg.fn = "ai_ptr_type!::slice"
    /\ sliceArg.ptr = 2 * ArrayA
    /\ sliceArg.len >= 2
    /\ sliceOut.len = sliceArg.len

(***************************************************************************)
(* Claims about the node tree (SpecTree).                                  *)
(***************************************************************************)
\* C14: root_node().parent() is None; parent() is None exactly when the
\* node's parent link is null; and for a child c taken from n.children(),
\* c.parent() is Some node at the address of n.
C14_TreeParentChild ==
    /\ [](navOut.op = "parent" =>
            /\ (navOut.kind = "None" <=> graph.nodes[navOut.from].mParent = NullPtr)
            /\ (navOut.from = graph.mRootNode => navOut.kind = "None")
            /\ (navOut.kind # "None" =>
                  /\ navOut.kind = "Some"
                  /\ navOut.ptr = graph.nodes[navOut.from].mParent))
    /\ [][(navOut.op = "children" /\ navOut'.op = "parent") =>
            /\ navOut'.from = navOut.ptr
            /\ navOut'.kind = "Some"
            /\ navOut'.ptr = navOut.from
            /\ node'.ptr = navOut.from]_vars

C14_Witness ==
    /\ navOut.op = "parent"
    /\ navOut.kind = "Some"
    /\ navOut.ptr # graph.mRootNode
    /\ node.ptr = navOut.ptr

\* C16: a null pointer where the graph guarantees non-null is a panic:
\* from_ptr of a view type or of Scene on null, root_node on a scene whose
\* root pointer is null, and iter on a block with a null key or value array
\* panic; no call returns a view or an iterator of a null pointer.
C16_NullIsPanic ==
    /\ (navOut.op = "from_ptr" /\ navOut.from = NullPtr => navOut.kind = "Panic")
    /\ (navOut.op = "root_node" /\ graph.mRootNode = NullPtr => navOut.kind = "Panic")
    /\ (navOut.op = "iter" /\ (\/ graph.nodes[navOut.from].meta.mKeys = NullPtr
                               \/ graph.nodes[navOut.from].meta.mValues = NullPtr)
          => navOut.kind = "Panic")
    /\ (navOut.kind \in {"View", "Some", "Iter"} => navOut.ptr # NullPtr)

C16_Witness ==
    /\ navOut.op = "root_node"
    /\ graph.mRootNode = NullPtr
    /\ navOut.kind = "Panic"

(***************************************************************************)
(* Claims about the enum translators (SpecPrim).                           *)
(***************************************************************************)
Decoded == enumArg.enum # "none"

\* C18: for each of the eight enumerations and each variant v, from_ffi of
\* the integer code of v is v.
C18_DecodeOfCodeIsVariant ==
    Decoded =>
        \A v \in DOMAIN EnumTable[enumArg.enum] :
            enumArg.code = Discriminant(enumArg.enum, v) =>
                /\ enumOut.kind = "Variant"
                /\ enumOut.name = v
                /\ enumOut.code = Discriminant(enumArg.enum, v)

C18_Witness ==
    /\ enumArg.enum = "TextureMapMode"
    /\ enumArg.code = 3
    /\ enumOut.name = "Decal"

\* C19: from_ffi validates nothing: for every foreign code, those outside
\* the enumeration's discriminants included, it returns a value carrying
\* that code, and neither panics nor reports an error.
C19_NoValidation ==
    Decoded =>
        /\ enumOut.kind \in {"Variant", "Invalid"}
        /\ enumOut.code = enumArg.code
        /\ ((\A v \in DOMAIN EnumTable[enumArg.enum] :
                enumArg.code # Discriminant(enumArg.enum, v)) => enumOut.kind = "Invalid")

C19_Witness ==
    /\ enumArg.enum = "ShadingMode"
    /\ enumArg.code \in {0, 11}
    /\ enumOut.kind = "Invalid"

(***************************************************************************)
(* Claims about the embedded texture (SpecEmbedded).                       *)
(***************************************************************************)
\* C20: with mHeight # 0, as_texels returns Some((width, height, texels))
\* with exactly width * height texels and format_hint returns None; with
\* mHeight = 0, as_texels returns None; the two are never both present.
C20_TexelsOrHint ==
    /\ (texelsOut.kind # "New" /\ texture.mHeight # 0 =>
          /\ texelsOut.kind = "Some"
          /\ texelsOut.w = texture.mWidth
          /\ texelsOut.h = texture.mHeight
          /\ texelsOut.texels.len = texture.mWidth * texture.mHeight)
    /\ (texelsOut.kind # "New" /\ texture.mHeight = 0 => texelsOut.kind = "None")
    /\ (hintOut.kind # "New" /\ texture.mHeight # 0 => hintOut.kind = "None")
    /\ ~(texelsOut.kind = "Some" /\ hintOut.kind = "Some")

(***************************************************************************)
(* Claims about the bounds of the metadata arrays (SpecMeta).              *)
(***************************************************************************)
\* C25: on a block of N entries every position of the key and value arrays
\* that Iter::next reads (directly, or inside get) lies in 0..N-1.
C25_ReadsInBlock == readLog \subseteq Positions(metaData)

(***************************************************************************)
(* Claims about the UV-channel index of a texture binding (SpecTexture).   *)
(***************************************************************************)
\* C29: in a binding texture_properties returns, uv_index is None exactly
\* when the UV-channel output still holds the all-ones word after the
\* engine's call (the engine did not write it, or wrote that very word), and
\* Some(u) with the word u the engine wrote otherwise; u = 0 is Some(0).
C29_UvIndexSentinel ==
    (TexCalled /\ texOut.kind = "Some") =>
        LET a == TexAnswer.uvindex
        IN  /\ texOut.rec.uv_index.some <=> (a.has /\ a.v # UvSentinel)
            /\ texOut.rec.uv_index.some => texOut.rec.uv_index.v = a.v

C29_Witness ==
    /\ TexCalled
    /\ texOut.kind = "Some"
    /\ TexAnswer.uvindex = Present(0)
    /\ texOut.rec.uv_index = [some |-> TRUE, v |-> 0]

(***************************************************************************)
(* Claims about the length arithmetic of the texture (SpecEmbedded).       *)
(***************************************************************************)
\* C28: as_bytes returns mWidth bytes when mHeight = 0 and exactly
\* 4 * mWidth * mHeight bytes otherwise, without a panic; and the texels
\* as_texels returns are exactly mWidth * mHeight.
C28_ExactLengths ==
    /\ bytesOut.kind # "New" =>
          /\ bytesOut.kind = "Ok"
          /\ IF texture.mHeight = 0 THEN bytesOut.len = texture.mWidth
             ELSE /\ bytesOut.len % 4 = 0
                  /\ bytesOut.len \div 4 = texture.mWidth * texture.mHeight
    /\ texelsOut.kind = "Some" =>
          texelsOut.texels.len = texture.mWidth * texture.mHeight

(***************************************************************************)
(* Claims about the vertex attributes of a mesh (SpecMesh).                *)
(***************************************************************************)
\* The foreign pointer the last accessor call bridged, for a valid channel.
MeshPtrOf(fn, channel) ==
    CASE fn = "normals" -> mesh.mNormals
      [] fn = "tangents" -> mesh.mTangents
      [] fn = "bitangents" -> mesh.mBitangents
      [] fn = "colors" -> mesh.mColors[channel]
      [] OTHER -> mesh.mTextureCoords[channel]

OptionalAttrCalled ==
    \/ meshOut.fn \in {"normals", "tangents", "bitangents"}
    \/ meshOut.fn = "colors" /\ meshOut.channel < MAX_COLOR_SETS
    \/ meshOut.fn = "texture_coords" /\ meshOut.channel < MAX_TEXTURE_COORDS

\* C21: for every mesh and every valid channel, normals, tangents,
\* bitangents, colors(channel) and texture_coords(channel) return a slice of
\* length 0 when the attribute's foreign pointer is null and of length
\* mNumVertices, at that pointer, when it is not; no other length occurs.
C21_OptionalAttrLengths ==
    OptionalAttrCalled =>
        LET ptr == MeshPtrOf(meshOut.fn, meshOut.channel)
        IN  /\ meshOut.kind = "Ok"
            /\ meshOut.len \in {0, mesh.mNumVertices}
            /\ ptr = NullPtr => meshOut.len = 0
            /\ ptr # NullPtr => meshOut.len = mesh.mNumVertices
            /\ meshOut.len > 0 => meshOut.ptr = ptr

C21_Witness ==
    /\ meshOut.fn = "colors"
    /\ meshOut.channel = MAX_COLOR_SETS - 1
    /\ mesh.mColors[meshOut.channel] # NullPtr
    /\ mesh.mNormals = NullPtr
    /\ meshOut.len = mesh.mNumVertices
    /\ meshOut.len > 1

\* C30: colors(channel) with channel >= MAX_COLOR_SETS and
\* texture_coords(channel) with channel >= MAX_TEXTURE_COORDS return the
\* empty slice, and num_uv_components(channel) with channel >=
\* MAX_TEXTURE_COORDS returns 0, without indexing the channel array and
\* without a panic.
C30_ChannelOutOfRange ==
    /\ (meshOut.fn = "colors" /\ meshOut.channel >= MAX_COLOR_SETS) =>
          meshOut.kind = "Ok" /\ meshOut.len = 0 /\ meshOut.at = NoChannel
    /\ (meshOut.fn = "texture_coords" /\ meshOut.channel >= MAX_TEXTURE_COORDS) =>
          meshOut.kind = "Ok" /\ meshOut.len = 0 /\ meshOut.at = NoChannel
    /\ (meshOut.fn = "num_uv_components" /\ meshOut.channel >= MAX_TEXTURE_COORDS) =>
          meshOut.kind = "Count" /\ meshOut.len = 0 /\ meshOut.at = NoChannel

C30_Witness ==
    /\ meshOut.fn = "num_uv_components"
    /\ meshOut.channel = MAX_TEXTURE_COORDS
    /\ meshOut.kind = "Count"
    /\ \A c \in DOMAIN mesh.mNumUVComponents : mesh.mNumUVComponents[c] > 0

(***************************************************************************)
(* Claims about repeated reads (SpecMeta).                                 *)
(***************************************************************************)
\* C22: the accessors are idempotent pure reads: a call leaves the foreign
\* block unchanged, and MetaData::get called again with the same key, after
\* any other calls, returns what it returned before.
C22_IdempotentReads ==
    [][/\ metaData' = metaData
       /\ (getOut.kind # "New" /\ getArg' = getArg) => getOut' = getOut]_vars

(***************************************************************************)
(* Claims about the import calls of two threads (SpecScene, SpecImport).   *)
(***************************************************************************)
\* C23: the error text a failing from_file / from_bytes returns is the
\* engine's process-wide text as it is when the thread reads it, after its
\* import call has returned: the text of its own failed import, or that of
\* an import another thread made in between.
C23_ErrorTextRace ==
    \A t \in Threads :
        (pc[t] = "idle" /\ result[t].kind = "Err") =>
            /\ ret[t] = NullPtr
            /\ result[t].msg.call \in call[t].no..nImports
            /\ result[t].msg.text \in {ToStringLossy(bytes) : bytes \in ErrorTexts}

\* the race: a thread whose import failed returns the text of the import
\* the other thread made after it
C23_Witness ==
    \E t \in Threads, u \in Threads :
        /\ t # u
        /\ pc[t] = "idle"
        /\ result[t].kind = "Err"
        /\ result[t].msg.call > call[t].no
        /\ result[t].msg.call = call[u].no

\* C27: every C string handed to the engine has its NUL terminator inside
\* the caller's buffer: the path of from_file as the hint of from_bytes.
C27_CStringsTerminated ==
    \A t \in Threads : call[t].no # 0 => ~call[t].past

(***************************************************************************)
(* Claims about the views a bridged pointer array holds (SpecPrim).        *)
(***************************************************************************)
\* C26: every view in a slice that ai_ptr_type!::slice returns (the slices
\* of Node::children, Scene::meshes, materials, animations, textures,
\* lights, cameras, Mesh::bones, Animation::channels) wraps a non-null
\* pointer, whatever the entries of the foreign pointer array.
C26_SliceViewsNonNull ==
    (sliceArg.fn = "ai_ptr_type!::slice" /\ sliceOut.kind = "Ok") =>
        \A i \in 0..(sliceOut.len - 1) : SliceView(sliceOut, i).ptr # NullPtr

(***************************************************************************)
(* Claims about the meshes of the node tree (SpecTree).                    *)
(***************************************************************************)
\* The root has two children and each of them owns one mesh.
TwoChildScene ==
    /\ graph.mRootNode # NullPtr
    /\ graph.nodes[graph.mRootNode].mNumChildren = 2
    /\ \A c \in 1..Len(graph.nodes) :
         graph.nodes[c].mParent = graph.mRootNode => graph.nodes[c].mNumMeshes = 1

\* C24: in a scene whose root has two children with one mesh each,
\* root_node().children() has length 2, meshes() of each child has length 1,
\* and the index it holds is below scene.meshes().len().
C24_TwoChildrenOneMeshEach ==
    TwoChildScene =>
        /\ (navOut.op = "children" /\ navOut.from = graph.mRootNode) => navOut.len = 2
        /\ (navOut.op = "meshes" /\ navOut.from # graph.mRootNode
              /\ graph.nodes[navOut.from].mParent = graph.mRootNode) =>
                 /\ navOut.len = 1
                 /\ navOut.kind = "Index"
                 /\ navOut.ptr \in 0..(Len(Scene_meshes(graph)) - 1)
        /\ navOut.op = "scene.meshes" => navOut.len = graph.mNumMeshes

C24_Witness ==
    /\ TwoChildScene
    /\ navOut.op = "meshes"
    /\ graph.nodes[navOut.from].mParent = graph.mRootNode
    /\ navOut.ptr = 1
    /\ navOut.len = 1
    /\ Len(Scene_meshes(graph)) = 2

====
